---- MODULE Spec2Model ----
(***************************************************************************)
(* A model of etlkit: the check helpers of templates.py, the three-stage   *)
(* TemplatePipeline, and the BaseLoad.__call__ wrapper of _baseclasses.py. *)
(*                                                                         *)
(* Python values are records with a "type" field.  A pandas DataFrame is   *)
(* kept as the three things the code reads of it: its set of column names, *)
(* its number of rows, and the values of its 'Unique_ID' column.           *)
(* Python's None, when it is a return value or an exception slot, and the  *)
(* exception classes are strings.                                          *)
(***************************************************************************)
EXTENDS Integers, Sequences, FiniteSets, TLC

VARIABLES
    LOCATION,       \* os.getenv('LOCATION'), read once at import
    \* ---- generic_checker / generic_check_handler called on their own
    tests,          \* the list handed to generic_check_handler
    handlerResult,  \* outcome of generic_check_handler(tests), or NotCalled
    checkerArgs,    \* the triple handed to generic_checker
    checkerResult,  \* what generic_checker returned for it, or NotCalled
    \* ---- TemplatePipeline
    config,         \* self.config
    pc,             \* where the call into the pipeline stands
    entry,          \* the public method that was called: "run" or "load"
    data,           \* what self.extract() returned
    df,             \* what self.transform(data) returned
    calls,          \* every call the pipeline made, in order
    raised,         \* the exception that left the pipeline, or None
    log,            \* what the pipeline wrote through logging
    \* ---- BaseLoad
    loader,         \* the attributes of a loader object (its __dict__)
    last,           \* the latest BaseLoad.__call__: its arguments, its outcome, the
                    \* calls of load it made, and the loader's attributes before it
    \* ---- Config
    cfgArgs,        \* the arguments of Config(...), and the clock at that moment
    cfg,            \* the Config object constructed, PyNone before
    \* ---- MultiExtractor
    async_extract,  \* the constructor's flag: run is _run_async when true, else _run
    extractor_jobs, \* self.extractor_jobs
    answers,        \* per job, what its extractor's query_runner does with its query
    lastCreate,     \* the latest create_job: arguments, outcome, the job list before it
    mexPc,          \* "building", then who holds the thread during run, then the end
    tasks,          \* the asyncio tasks created by _extract_async
    ready,          \* the event loop's FIFO of callbacks: a task's number, 0 for main
    waiting,        \* the task the suspended main coroutine awaits, 0 when none
    awaited,        \* how many tasks main has awaited and stored
    runnerCalls,    \* every call of a query_runner, in order
    mexData,        \* the dataframes dict of the Data object being filled
    mexResult,      \* the outcome of run
    \* ---- SalesforceExtractor, BigQueryExtractor
    extArgs,        \* the constructor called and its arguments
    ext,            \* the extractor object, PyNone while there is none
    extPc,          \* where the extractor's caller or its query_runner stands
    extQuery,       \* the query handed to query_runner
    sfCalls,        \* the calls _bulk_query made on its client, in order
    batchDone,      \* whether Salesforce has finished the submitted batch
    extResult,      \* the outcome of the latest constructor or query_runner call
    extLog,         \* what the extractor wrote through logging
    \* ---- TransformTemplate.test_inputs and throw_errors
    tiCall,         \* the latest call: the method, its argument and its outcome
    \* ---- BigQueryLoader
    bqLoad          \* what the latest call of BigQueryLoader.load did

checkerVars == <<tests, handlerResult, checkerArgs, checkerResult>>
pipeVars    == <<config, pc, entry, data, df, calls, raised, log>>
loadVars    == <<loader, last>>
configVars  == <<cfgArgs, cfg>>
mexVars     == <<async_extract, extractor_jobs, answers, lastCreate, mexPc, tasks,
                 ready, waiting, awaited, runnerCalls, mexData, mexResult>>
extVars     == <<extArgs, ext, extPc, extQuery, sfCalls, batchDone, extResult, extLog>>
tiVars      == <<tiCall>>
bqVars      == <<bqLoad>>
moreVars    == <<tiVars, bqVars>>
restVars    == <<configVars, mexVars, extVars, moreVars>>
vars        == <<LOCATION, checkerVars, pipeVars, loadVars, restVars>>

(***************************************************************************)
(* Bounds of the model.                                                    *)
(***************************************************************************)
MaxRows  == 2      \* rows of a dataframe
NumIds   == 2      \* distinct values a 'Unique_ID' cell can take
MaxTests == 2      \* length of the list handed to generic_check_handler
MaxClock    == 2   \* days on the clock, counted from 2023-01-01
MaxLookback == 2   \* the lookbacktime argument of Config, in days
MaxJobs     == 2   \* jobs created on one MultiExtractor
MaxPolls    == 2   \* polls of _bulk_query that find the batch not done

(***************************************************************************)
(* Python values.                                                          *)
(***************************************************************************)
None      == "None"
NotCalled == [exc |-> "not called", args |-> <<>>, log |-> <<>>]

PyNone == [type |-> "NoneType"]
PyStr  == [type |-> "str"]

Columns  == {"Unique_ID", "Name"}
IdValues == 1..NumIds

\* Every dataframe with at most MaxRows rows over the column names Columns.
DataFrames ==
    UNION { IF "Unique_ID" \in c
              THEN { [type |-> "DataFrame", columns |-> c, nrows |-> n, Unique_ID |-> u] :
                       u \in [1..n -> IdValues] }
              ELSE { [type |-> "DataFrame", columns |-> c, nrows |-> n, Unique_ID |-> <<>>] }
            : c \in SUBSET Columns, n \in 0..MaxRows }

\* Objects that are not pandas DataFrames but answer .columns and ['Unique_ID']
\* (duck typing): the only non-dataframes that get past the building of a test list.
Ducks == { [d EXCEPT !.type = "Duck"] : d \in DataFrames }

Values == DataFrames \cup Ducks \cup {PyNone, PyStr}

\* isinstance(v, DataFrame)
IsDataFrame(v) == v.type = "DataFrame"
\* hasattr(v, 'columns')
HasColumns(v) == v.type \in {"DataFrame", "Duck"}
\* Series.is_unique
is_unique(series) ==
    \A i, j \in 1..Len(series) : series[i] = series[j] => i = j
\* DataFrame.empty: some axis has length 0
empty(v) == v.nrows = 0 \/ v.columns = {}

\* The Config objects a pipeline or a loader is handed.
Configs ==
    [type : {"Config"}, update_mode : BOOLEAN,
     table_name : {"", "tbl"}, dataset_name : {"", "dset"}]

Locations == {"local", "cloud", None}
ExceptionClasses == {"ValueError", "KeyError", "TypeError"}

\* The outcome of a call: the exception raised (None when it returned), the
\* exception's args, and what the call logged.
Return(lg)        == [exc |-> None, args |-> <<>>, log |-> lg]
Raise(e, a, lg)   == [exc |-> e, args |-> a, log |-> lg]

(***************************************************************************)
(* templates.py: the check helpers.                                        *)
(***************************************************************************)
\* faulty variant: the two branches are swapped
generic_checker_inverted(test, msg, exception) ==
    IF test THEN [ret |-> exception, log |-> <<msg>>]
            ELSE [ret |-> None, log |-> <<>>]

generic_checker(test, msg, exception) ==
    IF test THEN [ret |-> None, log |-> <<>>]
            ELSE [ret |-> exception, log |-> <<msg>>]

RECURSIVE Flatten(_)
Flatten(ss) == IF ss = <<>> THEN <<>> ELSE Head(ss) \o Flatten(Tail(ss))

\* faulty variant: all() where the code has any()
generic_check_handler_all(ts) ==
    LET res        == [i \in 1..Len(ts) |-> generic_checker(ts[i][1], ts[i][2], ts[i][3])]
        exceptions == [i \in 1..Len(ts) |-> res[i].ret]
        logged     == Flatten([i \in 1..Len(ts) |-> res[i].log])
    IN  IF \A i \in 1..Len(ts) : exceptions[i] # None
          THEN Raise("Exception", exceptions, logged)
          ELSE Return(logged)

generic_check_handler(ts) ==
    LET res        == [i \in 1..Len(ts) |-> generic_checker(ts[i][1], ts[i][2], ts[i][3])]
        exceptions == [i \in 1..Len(ts) |-> res[i].ret]
        logged     == Flatten([i \in 1..Len(ts) |-> res[i].log])
    IN  IF \E i \in 1..Len(ts) : exceptions[i] # None
          THEN IF LOCATION = "local"
                 THEN Raise("Exception", exceptions,
                            logged \o <<"Errors were thrown, entering debug mode.">>)
                 ELSE Raise("Exception", exceptions,
                            logged \o <<"Errors were thrown, raising exception.">>)
          ELSE Return(logged)

\* faulty variant: the dataset name is not checked
load_checker_no_dataset(d, c) ==
    IF c.type # "Config" THEN Raise("AttributeError", <<>>, <<>>)
    ELSE IF ~HasColumns(d) THEN Raise("AttributeError", <<>>, <<>>)
    ELSE IF "Unique_ID" \notin d.columns THEN Raise("KeyError", <<>>, <<>>)
    ELSE
      LET handled == generic_check_handler(<<
            <<c.table_name # "", "Table name cannot be empty.", "ValueError">>,
            <<IsDataFrame(d), "Expected a dataframe, got " \o d.type, "TypeError">>,
            <<"Unique_ID" \in d.columns, "No 'Unique_ID' col in the output.", "KeyError">>,
            <<is_unique(d.Unique_ID), "The 'Unique_ID' col is not unique.", "ValueError">> >>)
      IN  IF handled.exc # None THEN handled
          ELSE IF empty(d)
            THEN Return(handled.log \o <<"Dataframe is empty, not loading anything.">>)
            ELSE Return(handled.log)

\* The list literal of load_checker is built before generic_check_handler is
\* called: an element whose evaluation raises ends load_checker there.
load_checker(d, c) ==
    IF c.type # "Config" THEN Raise("AttributeError", <<>>, <<>>)  \* config.table_name
    ELSE IF ~HasColumns(d) THEN Raise("AttributeError", <<>>, <<>>) \* df.columns
    ELSE IF "Unique_ID" \notin d.columns THEN Raise("KeyError", <<>>, <<>>) \* df['Unique_ID']
    ELSE
      LET handled == generic_check_handler(<<
            <<c.table_name # "", "Table name cannot be empty.", "ValueError">>,
            <<c.dataset_name # "", "Dataset name cannot be empty.", "ValueError">>,
            <<IsDataFrame(d), "Expected a dataframe, got " \o d.type, "TypeError">>,
            <<"Unique_ID" \in d.columns, "No 'Unique_ID' col in the output.", "KeyError">>,
            <<is_unique(d.Unique_ID), "The 'Unique_ID' col is not unique.", "ValueError">> >>)
      IN  IF handled.exc # None THEN handled
          ELSE IF empty(d)
            THEN Return(handled.log \o <<"Dataframe is empty, not loading anything.">>)
            ELSE Return(handled.log)

\* faulty variant: the uniqueness test is missing
transform_checker_no_unique(output) ==
    IF ~HasColumns(output) THEN Raise("AttributeError", <<>>, <<>>)
    ELSE IF "Unique_ID" \notin output.columns THEN Raise("KeyError", <<>>, <<>>)
    ELSE generic_check_handler(<<
            <<IsDataFrame(output), "Expected a dataframe, got " \o output.type, "TypeError">>,
            <<"Unique_ID" \in output.columns, "No 'Unique_ID' col in the output.", "KeyError">> >>)

transform_checker(output) ==
    IF ~HasColumns(output) THEN Raise("AttributeError", <<>>, <<>>)   \* output.columns
    ELSE IF "Unique_ID" \notin output.columns THEN Raise("KeyError", <<>>, <<>>) \* output['Unique_ID']
    ELSE generic_check_handler(<<
            <<IsDataFrame(output), "Expected a dataframe, got " \o output.type, "TypeError">>,
            <<"Unique_ID" \in output.columns, "No 'Unique_ID' col in the output.", "KeyError">>,
            <<is_unique(output.Unique_ID), "The 'Unique_ID' col is not unique.", "ValueError">> >>)


(***************************************************************************)
(* generic_checker and generic_check_handler called on their own, on every *)
(* triple and every list of at most MaxTests triples.                      *)
(***************************************************************************)
Messages  == {"Pass", "Fail"}
Triples   == BOOLEAN \X Messages \X ExceptionClasses
TestLists == UNION { [1..n -> Triples] : n \in 0..MaxTests }

CheckerIdle ==
    /\ tests = <<>>
    /\ handlerResult = NotCalled
    /\ checkerArgs = <<>>
    /\ checkerResult = NotCalled

call_generic_checker ==
    /\ checkerResult = NotCalled
    /\ \E t \in Triples :
         /\ checkerArgs' = t
         /\ checkerResult' = generic_checker(t[1], t[2], t[3])
    /\ UNCHANGED <<LOCATION, tests, handlerResult, pipeVars, loadVars, restVars>>

call_generic_check_handler ==
    /\ handlerResult = NotCalled
    /\ handlerResult' = generic_check_handler(tests)
    /\ UNCHANGED <<LOCATION, tests, checkerArgs, checkerResult, pipeVars, loadVars, restVars>>

(***************************************************************************)
(* templates.py: TemplatePipeline.  The extractor, transformer and loader  *)
(* classes are supplied by the caller: constructing one or running one may *)
(* raise, and a run returns whatever the caller's code returns.            *)
(***************************************************************************)
\* A Data object, kept as the keys of its dataframes dict.
DataObjects    == { [type |-> "Data", dataframes |-> k] : k \in SUBSET {"df_a", "df_b"} }
ExtractOutputs == DataObjects \cup {PyNone}

Instance == [type |-> "instance"]
Raised   == [type |-> "raise"]
Call(op, args, ret) == [op |-> op, args |-> args, ret |-> ret]

PipeIdle ==
    /\ config = PyNone
    /\ pc = "unused"
    /\ entry = None
    /\ data = PyNone
    /\ df = PyNone
    /\ calls = <<>>
    /\ raised = None
    /\ log = <<>>

\* TemplatePipeline.__init__(extractor, transformer, loader, config)
PipeInit ==
    /\ config \in Configs \cup {PyNone}
    /\ pc = "idle"
    /\ entry = None
    /\ data = PyNone
    /\ df = PyNone
    /\ calls = <<>>
    /\ raised = None
    /\ log = <<>>

\* faulty variant: run without its config guard
TemplatePipeline_run_no_guard ==
    /\ pc = "idle"
    /\ entry' = "run"
    /\ pc' = "extract"
    /\ UNCHANGED <<log, raised>>
    /\ UNCHANGED <<LOCATION, config, data, df, calls, checkerVars, loadVars, restVars>>

\* run (also reached through __call__), up to its first stage: the config guard.
TemplatePipeline_run ==
    /\ pc = "idle"
    /\ entry' = "run"
    /\ IF config = PyNone
         THEN /\ log' = log \o <<"Config is None, cannot run the pipeline.", "Exiting">>
              /\ raised' = "SystemExit"
              /\ pc' = "exited"
         ELSE /\ pc' = "extract"
              /\ UNCHANGED <<log, raised>>
    /\ UNCHANGED <<LOCATION, config, data, df, calls, checkerVars, loadVars, restVars>>

\* data = self.extractor(self.config).run()
TemplatePipeline_extract ==
    /\ pc = "extract"
    /\ \/ /\ calls' = calls \o <<Call("Extractor", <<config>>, Raised)>>
          /\ raised' = "StageError"
          /\ pc' = "raised"
          /\ UNCHANGED data
       \/ /\ calls' = calls \o <<Call("Extractor", <<config>>, Instance),
                                 Call("extractor.run", <<>>, Raised)>>
          /\ raised' = "StageError"
          /\ pc' = "raised"
          /\ UNCHANGED data
       \/ \E out \in ExtractOutputs :
            /\ calls' = calls \o <<Call("Extractor", <<config>>, Instance),
                                   Call("extractor.run", <<>>, out)>>
            /\ data' = out
            /\ pc' = "transform"
            /\ UNCHANGED raised
    /\ UNCHANGED <<LOCATION, config, entry, df, log, checkerVars, loadVars, restVars>>

\* faulty variant: the transformer is handed the config, not the extracted data
TemplatePipeline_transform_wrong_arg ==
    /\ pc = "transform"
    /\ \E output \in Values :
         LET checked == transform_checker(output)
         IN  /\ calls' = calls \o <<Call("Transformer", <<>>, Instance),
                                    Call("transformer.run", <<config>>, output),
                                    Call("transform_checker", <<output>>, checked)>>
             /\ log' = log \o checked.log
             /\ IF checked.exc # None
                  THEN raised' = checked.exc /\ pc' = "raised" /\ UNCHANGED df
                  ELSE df' = output /\ pc' = "load" /\ UNCHANGED raised
    /\ UNCHANGED <<LOCATION, config, entry, data, checkerVars, loadVars, restVars>>

\* df = self.transformer().run(data); transform_checker(df)
TemplatePipeline_transform ==
    /\ pc = "transform"
    /\ \/ /\ calls' = calls \o <<Call("Transformer", <<>>, Raised)>>
          /\ raised' = "StageError"
          /\ pc' = "raised"
          /\ UNCHANGED <<df, log>>
       \/ /\ calls' = calls \o <<Call("Transformer", <<>>, Instance),
                                 Call("transformer.run", <<data>>, Raised)>>
          /\ raised' = "StageError"
          /\ pc' = "raised"
          /\ UNCHANGED <<df, log>>
       \/ \E output \in Values :
            LET checked == transform_checker(output)
            IN  /\ calls' = calls \o <<Call("Transformer", <<>>, Instance),
                                       Call("transformer.run", <<data>>, output),
                                       Call("transform_checker", <<output>>, checked)>>
                /\ log' = log \o checked.log
                /\ IF checked.exc # None
                     THEN raised' = checked.exc /\ pc' = "raised" /\ UNCHANGED df
                     ELSE df' = output /\ pc' = "load" /\ UNCHANGED raised
    /\ UNCHANGED <<LOCATION, config, entry, data, checkerVars, loadVars, restVars>>

\* load_checker(df, config); self.loader().run(df, config)
TemplatePipeline_load(d, c) ==
    LET checked == load_checker(d, c)
        check   == Call("load_checker", <<d, c>>, checked)
    IN  /\ log' = log \o checked.log
        /\ IF checked.exc # None
             THEN /\ calls' = calls \o <<check>>
                  /\ raised' = checked.exc
                  /\ pc' = "raised"
             ELSE \/ /\ calls' = calls \o <<check, Call("Loader", <<>>, Raised)>>
                     /\ raised' = "StageError"
                     /\ pc' = "raised"
                  \/ /\ calls' = calls \o <<check, Call("Loader", <<>>, Instance),
                                            Call("loader.run", <<d, c>>, Raised)>>
                     /\ raised' = "StageError"
                     /\ pc' = "raised"
                  \/ /\ calls' = calls \o <<check, Call("Loader", <<>>, Instance),
                                            Call("loader.run", <<d, c>>, PyNone)>>
                     /\ pc' = "done"
                     /\ UNCHANGED raised
        /\ UNCHANGED <<LOCATION, config, data, df, checkerVars, loadVars, restVars>>

\* run, third stage: self.load(df, self.config)
TemplatePipeline_run_load ==
    /\ pc = "load"
    /\ TemplatePipeline_load(df, config)
    /\ UNCHANGED entry

\* load called by the pipeline's user, on any dataframe and config
TemplatePipeline_call_load ==
    /\ pc = "idle"
    /\ entry' = "load"
    /\ \E d \in Values, c \in Configs \cup {PyNone} : TemplatePipeline_load(d, c)

(***************************************************************************)
(* _baseclasses.py: BaseLoad.  load is abstract: the subclass's load may   *)
(* return or raise.                                                        *)
(***************************************************************************)
PROJECT_ID == "proj"      \* os.getenv('GOOGLE_CLOUD_PROJECT_ID')

LoadInputs == DataFrames \cup {PyNone, PyStr}

\* What one call of BaseLoad.__call__ does to a loader with attributes self:
\* the exception it raises (None when it returns None) with its message, the
\* attributes after it, and the calls of self.load it made.
Rejected(self, e, m) == [exc |-> e, msg |-> m, self |-> self, loads |-> <<>>]

NoUniqueIdMsg == "Expected a column called 'Unique_ID' in the output dataframe."

\* faulty variant: table and dataset exchanged in the full table name
Loaded_table_first(d, c) ==
    LET self2 == [update_mode  |-> c.update_mode,
                  table_name   |-> c.table_name,
                  dataset_name |-> c.dataset_name]
        full_table_name ==
            PROJECT_ID \o "." \o self2.table_name \o "." \o self2.dataset_name
    IN  [exc |-> None, msg |-> "", self |-> self2,
         loads |-> <<[df |-> d, table |-> full_table_name, self |-> self2]>>]

\* the last five lines of BaseLoad.__call__: the attributes are copied from the
\* config, then self.load(df, full_table_name)
Loaded(d, c) ==
    LET self2 == [update_mode  |-> c.update_mode,
                  table_name   |-> c.table_name,
                  dataset_name |-> c.dataset_name]
        full_table_name ==
            PROJECT_ID \o "." \o self2.dataset_name \o "." \o self2.table_name
    IN  [exc |-> None, msg |-> "", self |-> self2,
         loads |-> <<[df |-> d, table |-> full_table_name, self |-> self2]>>]

\* faulty variant: the 'Unique_ID' presence check is missing
BaseLoad_call_no_presence(self, d, c) ==
    IF c.type # "Config" THEN Rejected(self, "AttributeError", "table_name")
    ELSE IF c.table_name = "" THEN Rejected(self, "ValueError", "Table name cannot be empty.")
    ELSE IF c.dataset_name = "" THEN Rejected(self, "ValueError", "Dataset name cannot be empty.")
    ELSE IF ~IsDataFrame(d) THEN Rejected(self, "TypeError", "Expected a dataframe, got " \o d.type)
    ELSE IF empty(d) THEN [exc |-> None, msg |-> "", self |-> self, loads |-> <<>>]
    ELSE Loaded(d, c)

\* faulty variant: the dataframe checks come before the name checks
BaseLoad_call_type_first(self, d, c) ==
    IF c.type # "Config" THEN Rejected(self, "AttributeError", "table_name")
    ELSE IF ~IsDataFrame(d) THEN Rejected(self, "TypeError", "Expected a dataframe, got " \o d.type)
    ELSE IF "Unique_ID" \notin d.columns THEN Rejected(self, "KeyError", NoUniqueIdMsg)
    ELSE IF c.table_name = "" THEN Rejected(self, "ValueError", "Table name cannot be empty.")
    ELSE IF c.dataset_name = "" THEN Rejected(self, "ValueError", "Dataset name cannot be empty.")
    ELSE IF empty(d) THEN [exc |-> None, msg |-> "", self |-> self, loads |-> <<>>]
    ELSE Loaded(d, c)

\* faulty variant: the attributes are copied from the config before the empty check
BaseLoad_call_assign_first(self, d, c) ==
    IF c.type # "Config" THEN Rejected(self, "AttributeError", "table_name")
    ELSE IF c.table_name = "" THEN Rejected(self, "ValueError", "Table name cannot be empty.")
    ELSE IF c.dataset_name = "" THEN Rejected(self, "ValueError", "Dataset name cannot be empty.")
    ELSE IF ~IsDataFrame(d) THEN Rejected(self, "TypeError", "Expected a dataframe, got " \o d.type)
    ELSE IF "Unique_ID" \notin d.columns THEN Rejected(self, "KeyError", NoUniqueIdMsg)
    ELSE IF empty(d) THEN [Loaded(d, c) EXCEPT !.loads = <<>>]
    ELSE Loaded(d, c)

BaseLoad_call(self, d, c) ==
    IF c.type # "Config" THEN Rejected(self, "AttributeError", "table_name")
    ELSE IF c.table_name = "" THEN Rejected(self, "ValueError", "Table name cannot be empty.")
    ELSE IF c.dataset_name = "" THEN Rejected(self, "ValueError", "Dataset name cannot be empty.")
    ELSE IF ~IsDataFrame(d) THEN Rejected(self, "TypeError", "Expected a dataframe, got " \o d.type)
    ELSE IF "Unique_ID" \notin d.columns THEN Rejected(self, "KeyError", NoUniqueIdMsg)
    ELSE IF empty(d) THEN [exc |-> None, msg |-> "", self |-> self, loads |-> <<>>]
    ELSE Loaded(d, c)

\* A loader after construction: no attribute is set yet.
LoadIdle ==
    /\ loader = <<>>
    /\ last = [df |-> PyNone, config |-> PyNone, before |-> <<>>, loads |-> <<>>,
               exc |-> "not called", msg |-> ""]

\* loader(df, config), for any df and config; when load is reached it returns or raises.
call_BaseLoad ==
    \E d \in LoadInputs, c \in Configs \cup {PyNone}, loadRaises \in BOOLEAN :
      LET r == BaseLoad_call(loader, d, c)
      IN  /\ loadRaises => r.loads # <<>>
          /\ loader' = r.self
          /\ last' = [df |-> d, config |-> c, before |-> loader, loads |-> r.loads,
                      exc |-> IF loadRaises THEN "LoadError" ELSE r.exc,
                      msg |-> IF loadRaises THEN "" ELSE r.msg]
          /\ UNCHANGED <<LOCATION, checkerVars, pipeVars, restVars>>

(***************************************************************************)
(* containers.py: Config.  Instants are counted in days from 2023-01-01    *)
(* (the default min_date); a min_date is the '%Y-%m-%dT%H:%M:%SZ' text of  *)
(* an instant.                                                             *)
(***************************************************************************)
\* Timestamp.strftime('%Y-%m-%dT%H:%M:%SZ')
strftime(t) == [type |-> "str", format |-> "%Y-%m-%dT%H:%M:%SZ", days |-> t]

Clock     == 0..MaxClock
Lookbacks == 0..MaxLookback
MinDates  == { strftime(t) : t \in Clock }

ConfigArgs ==
    [update_mode : BOOLEAN, table_name : {"", "tbl"}, dataset_name : {"", "dset"},
     lookbacktime : Lookbacks, min_date : MinDates, now : Clock]

\* faulty variant: running in the cloud does not force update mode
Config_init_no_cloud(a) ==
    [type         |-> "Config",
     update_mode  |-> a.update_mode,
     table_name   |-> a.table_name,
     dataset_name |-> a.dataset_name,
     lookbacktime |-> a.lookbacktime,
     min_date     |-> IF a.update_mode THEN strftime(a.now - a.lookbacktime)
                                       ELSE a.min_date]

\* Config.__init__: the min_date guard reads the argument update_mode, not the
\* attribute the cloud branch has just set.
Config_init(a) ==
    [type         |-> "Config",
     update_mode  |-> IF LOCATION = "cloud" THEN TRUE ELSE a.update_mode,
     table_name   |-> a.table_name,
     dataset_name |-> a.dataset_name,
     lookbacktime |-> a.lookbacktime,
     min_date     |-> IF a.update_mode THEN strftime(a.now - a.lookbacktime)
                                       ELSE a.min_date]

ConfigIdle ==
    /\ cfgArgs = PyNone
    /\ cfg = PyNone

\* Config(update_mode, table_name, dataset_name, lookbacktime, min_date), at any time
construct_Config ==
    /\ cfg = PyNone
    /\ \E a \in ConfigArgs :
         /\ cfgArgs' = a
         /\ cfg' = Config_init(a)
    /\ UNCHANGED <<LOCATION, checkerVars, pipeVars, loadVars, mexVars, extVars, moreVars>>

(***************************************************************************)
(* extractors.py: ExtractorJob and MultiExtractor.  A query_runner belongs *)
(* to the extractor a job was created with: called with the job's query it *)
(* returns a dataframe or raises.                                          *)
(***************************************************************************)
Str(v) == [type |-> "str", value |-> v]
IsStr(v) == v.type = "str"

AnExtractor == [type |-> "BaseExtract"]
\* isinstance(x, BaseExtract)
IsBaseExtract(x) == x.type = "BaseExtract"

ExtractorArgs == {AnExtractor, PyStr}
NameArgs      == {Str("a"), Str("b"), PyNone}
QueryArgs     == {Str("SELECT Id FROM Account"), PyNone}

\* what a query_runner can return: the one-column frames of at most one row
QueryResults == { d \in DataFrames : d.columns = {"Unique_ID"} /\ d.nrows <= 1 }
QueryError   == [type |-> "QueryError"]
Answers      == QueryResults \cup {QueryError}

\* ExtractorJob.__init__: the fields are set, then their types are tested
ExtractorJob_init(extractor, name, query) ==
    IF IsStr(query) /\ IsStr(name) /\ IsBaseExtract(extractor)
      THEN [exc |-> None,
            job |-> [query |-> query, name |-> name, extractor |-> extractor]]
      ELSE [exc |-> "TypeError", job |-> PyNone]

\* faulty variant: the job is appended before the inputs are verified
create_job_append_first(jobs, extractor, name, query) ==
    LET appended == Append(jobs, [query |-> query, name |-> name, extractor |-> extractor])
    IN  IF ~IsBaseExtract(extractor) \/ ~IsStr(name) \/ ~IsStr(query)
          THEN [exc |-> "TypeError", jobs |-> appended]
          ELSE [exc |-> None, jobs |-> appended]

\* faulty variant: the new job is put at the front of the list
create_job_prepend(jobs, extractor, name, query) ==
    IF ~IsBaseExtract(extractor) \/ ~IsStr(name) \/ ~IsStr(query)
      THEN [exc |-> "TypeError", jobs |-> jobs]
      ELSE [exc |-> None,
            jobs |-> <<[query |-> query, name |-> name, extractor |-> extractor]>> \o jobs]

\* MultiExtractor.create_job on a job list: the exception raised (None when it
\* returns) and the job list after it.
create_job(jobs, extractor, name, query) ==
    LET errors ==
            (IF ~IsBaseExtract(extractor) THEN <<"TypeError">> ELSE <<>>)
         \o (IF ~IsStr(name) THEN <<"TypeError">> ELSE <<>>)
         \o (IF ~IsStr(query) THEN <<"TypeError">> ELSE <<>>)
        made == ExtractorJob_init(extractor, name, query)
    IN  IF errors # <<>> THEN [exc |-> "TypeError", jobs |-> jobs]
        ELSE IF made.exc # None THEN [exc |-> made.exc, jobs |-> jobs]
        ELSE [exc |-> None, jobs |-> Append(jobs, made.job)]

\* faulty variant: d[k] = v only when k is not yet a key
DictPutNew(d, k, v) ==
    IF k \in DOMAIN d THEN d
    ELSE [x \in (DOMAIN d) \cup {k} |-> IF x = k THEN v ELSE d[x]]
\* d[k] = v on a Python dict
DictPut(d, k, v) == [x \in (DOMAIN d) \cup {k} |-> IF x = k THEN v ELSE d[x]]

DataOf(frames) == [type |-> "Data", dataframes |-> frames]
RunnerCall(jobs, i) == [job |-> i, query |-> jobs[i].query]

\* faulty variant: a name that is already a key keeps its first dataframe
RECURSIVE run_loop_keep_first(_, _, _, _, _)
run_loop_keep_first(jobs, ans, i, frames, called) ==
    IF i > Len(jobs) THEN [exc |-> None, data |-> DataOf(frames), runnerCalls |-> called]
    ELSE IF ans[i] = QueryError
      THEN [exc |-> "QueryError", data |-> PyNone,
            runnerCalls |-> Append(called, RunnerCall(jobs, i))]
      ELSE run_loop_keep_first(jobs, ans, i + 1,
                    DictPutNew(frames, "df_" \o jobs[i].name.value, ans[i]),
                    Append(called, RunnerCall(jobs, i)))

MultiExtractor_run_keep_first(jobs, ans) == run_loop_keep_first(jobs, ans, 1, <<>>, <<>>)

\* the for loop of _run, from job i on
RECURSIVE run_loop(_, _, _, _, _)
run_loop(jobs, ans, i, frames, called) ==
    IF i > Len(jobs) THEN [exc |-> None, data |-> DataOf(frames), runnerCalls |-> called]
    ELSE IF ans[i] = QueryError
      THEN [exc |-> "QueryError", data |-> PyNone,
            runnerCalls |-> Append(called, RunnerCall(jobs, i))]
      ELSE run_loop(jobs, ans, i + 1,
                    DictPut(frames, "df_" \o jobs[i].name.value, ans[i]),
                    Append(called, RunnerCall(jobs, i)))

\* MultiExtractor._run
MultiExtractor_run(jobs, ans) == run_loop(jobs, ans, 1, <<>>, <<>>)

NotRun == [exc |-> "not run", data |-> PyNone]
NoCreate ==
    [extractor |-> PyNone, name |-> PyNone, query |-> PyNone, before |-> <<>>,
     exc |-> "not called"]

MexIdle ==
    /\ async_extract = FALSE
    /\ extractor_jobs = <<>>
    /\ answers = <<>>
    /\ lastCreate = NoCreate
    /\ mexPc = "unused"
    /\ tasks = <<>>
    /\ ready = <<>>
    /\ waiting = 0
    /\ awaited = 0
    /\ runnerCalls = <<>>
    /\ mexData = <<>>
    /\ mexResult = NotRun

\* MultiExtractor.__init__(async_extract)
MexInit ==
    /\ async_extract \in BOOLEAN
    /\ extractor_jobs = <<>>
    /\ answers = <<>>
    /\ lastCreate = NoCreate
    /\ mexPc = "building"
    /\ tasks = <<>>
    /\ ready = <<>>
    /\ waiting = 0
    /\ awaited = 0
    /\ runnerCalls = <<>>
    /\ mexData = <<>>
    /\ mexResult = NotRun

runVars == <<mexPc, tasks, ready, waiting, awaited, runnerCalls, mexData, mexResult>>
notMex  == <<LOCATION, checkerVars, pipeVars, loadVars, configVars, extVars, moreVars>>

\* mex.create_job(extractor, name, query), with any arguments
call_create_job ==
    /\ mexPc = "building"
    /\ \E e \in ExtractorArgs, n \in NameArgs, q \in QueryArgs, a \in Answers :
         LET r == create_job(extractor_jobs, e, n, q)
         IN  /\ Len(r.jobs) <= MaxJobs
             /\ extractor_jobs' = r.jobs
             /\ answers' = IF r.exc = None THEN Append(answers, a) ELSE answers
             /\ lastCreate' = [extractor |-> e, name |-> n, query |-> q,
                               before |-> extractor_jobs, exc |-> r.exc]
    /\ UNCHANGED <<async_extract, runVars, notMex>>

\* mex.run() of a MultiExtractor(async_extract=False): _run
call_run ==
    /\ mexPc = "building"
    /\ ~async_extract
    /\ LET r == MultiExtractor_run(extractor_jobs, answers)
       IN  /\ runnerCalls' = r.runnerCalls
           /\ mexResult' = [exc |-> r.exc, data |-> r.data]
           /\ mexPc' = IF r.exc = None THEN "returned" ELSE "raised"
    /\ UNCHANGED <<async_extract, extractor_jobs, answers, lastCreate,
                   tasks, ready, waiting, awaited, mexData, notMex>>

NewTask(i) == [job |-> i, state |-> "pending", result |-> PyNone, runs |-> 0]

\* asyncio.run, on its way out: the tasks still pending are cancelled
CancelPending(ts) ==
    [i \in DOMAIN ts |-> IF ts[i].state = "pending"
                           THEN [ts[i] EXCEPT !.state = "cancelled"] ELSE ts[i]]

\* mex.run() of a MultiExtractor(async_extract=True): _run_async starts the event
\* loop with _extract_async as its main task, which makes its Data object
call_run_async ==
    /\ mexPc = "building"
    /\ async_extract
    /\ mexPc' = "main"
    /\ mexData' = <<>>
    /\ UNCHANGED <<async_extract, extractor_jobs, answers, lastCreate,
                   tasks, ready, waiting, awaited, runnerCalls, mexResult, notMex>>

\* faulty variant: main awaits each task as soon as it has created it
extract_async_create_task_then_wait ==
    /\ mexPc = "main"
    /\ Len(tasks) < Len(extractor_jobs)
    /\ tasks' = Append(tasks, NewTask(Len(tasks) + 1))
    /\ ready' = Append(ready, Len(tasks) + 1)
    /\ waiting' = Len(tasks) + 1
    /\ mexPc' = "loop"
    /\ UNCHANGED <<async_extract, extractor_jobs, answers, lastCreate,
                   awaited, runnerCalls, mexData, mexResult, notMex>>

\* _extract_async, first loop: asyncio_create_task(_asyncify(query_runner, query))
\* schedules the task's first step on the loop; main keeps the thread
extract_async_create_task ==
    /\ mexPc = "main"
    /\ Len(tasks) < Len(extractor_jobs)
    /\ tasks' = Append(tasks, NewTask(Len(tasks) + 1))
    /\ ready' = Append(ready, Len(tasks) + 1)
    /\ UNCHANGED <<async_extract, extractor_jobs, answers, lastCreate, mexPc,
                   waiting, awaited, runnerCalls, mexData, mexResult, notMex>>

\* faulty variant: the result is stored under the name left over from the first
\* loop, the last job's
extract_async_await_stale_name ==
    /\ mexPc = "main"
    /\ Len(tasks) = Len(extractor_jobs)
    /\ awaited < Len(tasks)
    /\ LET k == awaited + 1
       IN  \/ /\ tasks[k].state = "done"
              /\ mexData' = DictPut(mexData,
                     "df_" \o extractor_jobs[Len(extractor_jobs)].name.value, tasks[k].result)
              /\ awaited' = k
              /\ UNCHANGED <<mexPc, waiting, mexResult, tasks>>
           \/ /\ tasks[k].state = "failed"
              /\ mexResult' = [exc |-> "QueryError", data |-> PyNone]
              /\ mexPc' = "raised"
              /\ tasks' = CancelPending(tasks)
              /\ UNCHANGED <<waiting, awaited, mexData>>
           \/ /\ tasks[k].state = "pending"
              /\ waiting' = k
              /\ mexPc' = "loop"
              /\ UNCHANGED <<awaited, mexData, mexResult, tasks>>
    /\ UNCHANGED <<async_extract, extractor_jobs, answers, lastCreate,
                   ready, runnerCalls, notMex>>

\* _extract_async, second loop: df = await task; data.dataframes['df_'+name] = df.
\* A finished task hands over its result (or raises its exception) at once; a
\* pending one suspends main until the task's done-callback wakes it.
extract_async_await ==
    /\ mexPc = "main"
    /\ Len(tasks) = Len(extractor_jobs)
    /\ awaited < Len(tasks)
    /\ LET k == awaited + 1
       IN  \/ /\ tasks[k].state = "done"
              /\ mexData' = DictPut(mexData,
                     "df_" \o extractor_jobs[k].name.value, tasks[k].result)
              /\ awaited' = k
              /\ UNCHANGED <<mexPc, waiting, mexResult, tasks>>
           \/ /\ tasks[k].state = "failed"
              /\ mexResult' = [exc |-> "QueryError", data |-> PyNone]
              /\ mexPc' = "raised"
              /\ tasks' = CancelPending(tasks)
              /\ UNCHANGED <<waiting, awaited, mexData>>
           \/ /\ tasks[k].state = "pending"
              /\ waiting' = k
              /\ mexPc' = "loop"
              /\ UNCHANGED <<awaited, mexData, mexResult, tasks>>
    /\ UNCHANGED <<async_extract, extractor_jobs, answers, lastCreate,
                   ready, runnerCalls, notMex>>

\* _extract_async: return data, and asyncio.run closes the loop
extract_async_return ==
    /\ mexPc = "main"
    /\ Len(tasks) = Len(extractor_jobs)
    /\ awaited = Len(tasks)
    /\ mexResult' = [exc |-> None, data |-> DataOf(mexData)]
    /\ mexPc' = "returned"
    /\ tasks' = CancelPending(tasks)
    /\ UNCHANGED <<async_extract, extractor_jobs, answers, lastCreate,
                   ready, waiting, awaited, runnerCalls, mexData, notMex>>

\* how a task ends: with the runner's dataframe or with its exception
Finished(ts, ans, i) ==
    [ts EXCEPT ![i].state  = IF ans[i] = QueryError THEN "failed" ELSE "done",
               ![i].result = ans[i]]

\* faulty variant: the coroutine awaits its runner (as if run in a thread), so
\* the task yields to the loop while the runner is in progress
loop_run_task_yielding ==
    /\ mexPc = "loop"
    /\ ready # <<>>
    /\ Head(ready) # 0
    /\ LET i == Head(ready)
       IN  IF tasks[i].state = "pending"
             THEN /\ runnerCalls' = Append(runnerCalls, RunnerCall(extractor_jobs, i))
                  /\ tasks' = [tasks EXCEPT ![i].state = "running",
                                            ![i].runs = tasks[i].runs + 1]
                  /\ ready' = Tail(ready) \o <<i>>
             ELSE /\ tasks' = Finished(tasks, answers, i)
                  /\ ready' = Tail(ready) \o (IF waiting = i THEN <<0>> ELSE <<>>)
                  /\ UNCHANGED runnerCalls
    /\ UNCHANGED <<async_extract, extractor_jobs, answers, lastCreate, mexPc,
                   waiting, awaited, mexData, mexResult, notMex>>

\* the event loop runs the next ready task: the task's coroutine _asyncify
\* starts and calls func(*args), the job's query_runner; the task holds the
\* thread
loop_run_task ==
    /\ mexPc = "loop"
    /\ ready # <<>>
    /\ Head(ready) # 0
    /\ LET i == Head(ready)
       IN  /\ runnerCalls' = Append(runnerCalls, RunnerCall(extractor_jobs, i))
           /\ tasks' = [tasks EXCEPT ![i].state = "running",
                                     ![i].runs = tasks[i].runs + 1]
    /\ mexPc' = "task"
    /\ UNCHANGED <<async_extract, extractor_jobs, answers, lastCreate, ready,
                   waiting, awaited, mexData, mexResult, notMex>>

\* the query_runner returns or raises: _asyncify has no await, so its return
\* is the task's end, and the thread goes back to the loop; a task main is
\* waiting for schedules main's wake-up
asyncify_return ==
    /\ mexPc = "task"
    /\ LET i == Head(ready)
       IN  /\ tasks' = Finished(tasks, answers, i)
           /\ ready' = Tail(ready) \o (IF waiting = i THEN <<0>> ELSE <<>>)
    /\ mexPc' = "loop"
    /\ UNCHANGED <<async_extract, extractor_jobs, answers, lastCreate,
                   waiting, awaited, runnerCalls, mexData, mexResult, notMex>>

\* the event loop runs main's wake-up: main resumes at its await
loop_wake_main ==
    /\ mexPc = "loop"
    /\ ready # <<>>
    /\ Head(ready) = 0
    /\ ready' = Tail(ready)
    /\ waiting' = 0
    /\ mexPc' = "main"
    /\ UNCHANGED <<async_extract, extractor_jobs, answers, lastCreate,
                   tasks, awaited, runnerCalls, mexData, mexResult, notMex>>

(***************************************************************************)
(* SalesforceExtractor and BigQueryExtractor (etlkit/extractors.py) and    *)
(* the credentials they read (etlkit/credentials.py).                      *)
(***************************************************************************)
\* The credentials files: none given, a complete one, one without the
\* security_token key, and a path where there is no file.
CredsFiles == {"", "creds.json", "nokeys.json", "missing.json"}
FileKeys(f) ==
    IF f = "creds.json" THEN {"username", "password", "security_token"}
    ELSE {"username", "password"}

\* credentials.read_json: the dict's keys, or sys.exit
read_json(jsonfile) ==
    IF jsonfile \in {"", "missing.json"}
      THEN [exc |-> "SystemExit", keys |-> {}]
      ELSE [exc |-> None, keys |-> FileKeys(jsonfile)]

UsageSf == <<"json file should contain the following:", "{", "username", "password",
             "security_token", "}">>

\* credentials.get_salesforce_creds
get_salesforce_creds(jsonfile) ==
    IF jsonfile = ""
      THEN [exc |-> "ValueError", creds |-> PyNone,
            log |-> <<"get_salesforce_creds: No credentials JSON file provided.",
                      "set salesforce_creds_json = [path to JSON file]">> \o UsageSf]
    ELSE LET read == read_json(jsonfile)
         IN  IF read.exc # None
               THEN [exc |-> read.exc, creds |-> PyNone, log |-> <<>>]
             ELSE IF ~({"username", "password", "security_token"} \subseteq read.keys)
               THEN [exc |-> "ValueError", creds |-> PyNone,
                     log |-> <<"get_salesforce_creds: Credentials JSON file does not contain all required keys.">>
                             \o UsageSf]
             ELSE [exc |-> None, creds |-> [type |-> "SalesforceCreds"], log |-> <<>>]

\* An extractor object; client is PyNone when the attribute was never set.
Extractor(class, client, runner) ==
    [type |-> class, client |-> client, query_runner |-> runner]

SalesforceBulk == [type |-> "SalesforceBulk"]
Salesforce     == [type |-> "Salesforce"]
BigQueryClient == [type |-> "Client", project |-> "proj"]

NoCredsLogSf == <<"SalesforceExtractor: No Salesforce credentials JSON file provided.",
                  "SalesforceExtractor: set salesforce_creds_json = [path to JSON file]">>
NoCredsLogBq == <<"BigQueryExtractor: No Google credentials JSON file provided.",
                  "BigQueryExtractor: set google_creds_json = [path to JSON file]">>

\* faulty variant: the two branches on bulk are exchanged
SalesforceExtractor_init_swapped(bulk, creds_json) ==
    IF creds_json = ""
      THEN [exc |-> None, log |-> NoCredsLogSf,
            self |-> Extractor("SalesforceExtractor", PyNone, "_simple_query")]
    ELSE LET got == get_salesforce_creds(creds_json)
         IN  IF got.exc # None
               THEN [exc |-> got.exc, log |-> got.log, self |-> PyNone]
             ELSE IF ~bulk
               THEN [exc |-> None, log |-> got.log,
                     self |-> Extractor("SalesforceExtractor", SalesforceBulk, "_bulk_query")]
             ELSE [exc |-> None, log |-> got.log,
                   self |-> Extractor("SalesforceExtractor", Salesforce, "_simple_query")]

\* SalesforceExtractor.__init__
SalesforceExtractor_init(bulk, creds_json) ==
    IF creds_json = ""
      THEN [exc |-> None, log |-> NoCredsLogSf,
            self |-> Extractor("SalesforceExtractor", PyNone, "_simple_query")]
    ELSE LET got == get_salesforce_creds(creds_json)
         IN  IF got.exc # None
               THEN [exc |-> got.exc, log |-> got.log, self |-> PyNone]
             ELSE IF bulk
               THEN [exc |-> None, log |-> got.log,
                     self |-> Extractor("SalesforceExtractor", SalesforceBulk, "_bulk_query")]
             ELSE [exc |-> None, log |-> got.log,
                   self |-> Extractor("SalesforceExtractor", Salesforce, "_simple_query")]

\* BigQueryExtractor.__init__; Credentials.from_service_account_file opens the
\* file itself
BigQueryExtractor_init(creds_json) ==
    IF creds_json = ""
      THEN [exc |-> None, log |-> NoCredsLogBq,
            self |-> Extractor("BigQueryExtractor", PyNone, "_query")]
    ELSE IF creds_json = "missing.json"
      THEN [exc |-> "FileNotFoundError", log |-> <<>>, self |-> PyNone]
    ELSE IF creds_json = "nokeys.json"
      THEN [exc |-> "ValueError", log |-> <<>>, self |-> PyNone]
    ELSE [exc |-> None, log |-> <<>>,
          self |-> Extractor("BigQueryExtractor", BigQueryClient, "_query")]

NoResult == [exc |-> "not called", value |-> PyNone, client |-> PyNone]
NoArgs   == [class |-> "none", bulk |-> FALSE, creds_json |-> ""]

ExtIdle ==
    /\ extArgs = NoArgs
    /\ ext = PyNone
    /\ extPc = "unused"
    /\ extQuery = ""
    /\ sfCalls = <<>>
    /\ batchDone = FALSE
    /\ extResult = NoResult
    /\ extLog = <<>>

ExtInit ==
    /\ extArgs = NoArgs
    /\ ext = PyNone
    /\ extPc = "new"
    /\ extQuery = ""
    /\ sfCalls = <<>>
    /\ batchDone = FALSE
    /\ extResult = NoResult
    /\ extLog = <<>>

notExt == <<LOCATION, checkerVars, pipeVars, loadVars, configVars, mexVars, moreVars>>

\* the caller's view of a constructor call
Constructed(class, bulk, creds_json, r) ==
    /\ extArgs' = [class |-> class, bulk |-> bulk, creds_json |-> creds_json]
    /\ ext' = r.self
    /\ extPc' = IF r.exc = None THEN "constructed" ELSE "failed"
    /\ extResult' = [exc |-> r.exc, value |-> PyNone, client |-> PyNone]
    /\ extLog' = r.log
    /\ UNCHANGED <<extQuery, sfCalls, batchDone, notExt>>

construct_SalesforceExtractor ==
    /\ extPc = "new"
    /\ \E bulk \in BOOLEAN, creds_json \in CredsFiles :
           Constructed("SalesforceExtractor", bulk, creds_json,
                       SalesforceExtractor_init(bulk, creds_json))

construct_BigQueryExtractor ==
    /\ extPc = "new"
    /\ \E creds_json \in CredsFiles :
           Constructed("BigQueryExtractor", FALSE, creds_json,
                       BigQueryExtractor_init(creds_json))

ExtQueries == {"SELECT Id FROM Account", "SELECT 1", "SELECT * FROM proj.dset.tbl"}

\* query.split('FROM '), on the queries of the model
split_FROM(query) ==
    IF query = "SELECT Id FROM Account" THEN <<"SELECT Id ", "Account">>
    ELSE IF query = "SELECT * FROM proj.dset.tbl" THEN <<"SELECT * ", "proj.dset.tbl">>
    ELSE <<query>>

\* query.split(self.client.project+'.'), the project being 'proj'
split_project(query) ==
    IF query = "SELECT * FROM proj.dset.tbl" THEN <<"SELECT * FROM ", "dset.tbl">>
    ELSE <<query>>

ClientRaises(class) == [type |-> "Exception", class |-> class]
IsException(out) == out.type = "Exception"

\* what client.query_all(query) does: a result of n records, or an exception
SimpleOutcomes ==
    { [type |-> "records", n |-> k] : k \in 0..1 }
        \cup { ClientRaises(c) : c \in {"SalesforceMalformedRequest", "SalesforceExpiredSession"} }
\* what client.query(query).to_dataframe() does
BigQueryOutcomes ==
    QueryResults \cup { ClientRaises(c) : c \in {"BadRequest", "NotFound"} }

QueryReturn(v, out, lg)  == [exc |-> None, value |-> v, client |-> out, log |-> lg]
QueryRaise(e, out, lg)   == [exc |-> e, value |-> PyNone, client |-> out, log |-> lg]

\* SalesforceExtractor._simple_query; a result without records has no
\* 'attributes' column to drop
SalesforceExtractor_simple_query(self, query, out) ==
    IF self.client = PyNone THEN QueryRaise("AttributeError", PyNone, <<>>)
    ELSE IF IsException(out)
      THEN IF out.class = "SalesforceMalformedRequest"
             THEN QueryRaise("SystemExit", out, <<"Malformed query.">>)
             ELSE QueryRaise(out.class, out, <<>>)
    ELSE IF out.n = 0 THEN QueryRaise("KeyError", out, <<>>)
    ELSE QueryReturn([type |-> "DataFrame", columns |-> {"Id"}, nrows |-> out.n,
                      Unique_ID |-> <<>>], out, <<>>)

QueryingTable(query) ==
    IF Len(split_project(query)) > 1
      THEN <<"Querying BigQuery table " \o split_project(query)[2]>>
      ELSE <<>>

\* faulty variant: the except branch exits instead of raising e
BigQueryExtractor_query_exit(self, query, out) ==
    IF self.client = PyNone THEN QueryRaise("AttributeError", PyNone, <<>>)
    ELSE IF IsException(out)
      THEN QueryRaise("SystemExit", out, QueryingTable(query) \o <<"Error querying BQ:">>)
    ELSE QueryReturn(out, out, QueryingTable(query))

\* BigQueryExtractor._query
BigQueryExtractor_query(self, query, out) ==
    IF self.client = PyNone THEN QueryRaise("AttributeError", PyNone, <<>>)
    ELSE IF IsException(out)
      THEN QueryRaise(out.class, out, QueryingTable(query) \o <<"Error querying BQ:">>)
    ELSE QueryReturn(out, out, QueryingTable(query))

\* the caller's view of a query_runner that ran to its end
Queried(query, r) ==
    /\ extQuery' = query
    /\ extResult' = [exc |-> r.exc, value |-> r.value, client |-> r.client]
    /\ extLog' = extLog \o r.log
    /\ extPc' = IF r.exc = None THEN "returned" ELSE "raised"
    /\ UNCHANGED <<extArgs, ext, sfCalls, batchDone, notExt>>

call_simple_query ==
    /\ extPc = "constructed"
    /\ ext.query_runner = "_simple_query"
    /\ \E query \in ExtQueries, out \in SimpleOutcomes :
           Queried(query, SalesforceExtractor_simple_query(ext, query, out))

call_query ==
    /\ extPc = "constructed"
    /\ ext.query_runner = "_query"
    /\ \E query \in ExtQueries, out \in BigQueryOutcomes :
           Queried(query, BigQueryExtractor_query(ext, query, out))

\* One call of _bulk_query on its client, which returns ret or raises; an
\* exception leaves _bulk_query, which catches nothing.
SfCall(op, ret) == [op |-> op, ret |-> ret]
BulkRaise(op, e) ==
    /\ sfCalls' = IF op = "split" THEN sfCalls ELSE Append(sfCalls, SfCall(op, "raised"))
    /\ extResult' = [exc |-> e, value |-> PyNone, client |-> PyNone]
    /\ extPc' = "raised"
    /\ UNCHANGED <<extArgs, ext, batchDone, extLog, notExt>>

\* _bulk_query, up to the object named after 'FROM '
call_bulk_query ==
    /\ extPc = "constructed"
    /\ ext.query_runner = "_bulk_query"
    /\ \E query \in ExtQueries :
           /\ extQuery' = query
           /\ IF Len(split_FROM(query)) < 2
                THEN BulkRaise("split", "IndexError")
                ELSE /\ extPc' = "create_query_job"
                     /\ UNCHANGED <<extArgs, ext, sfCalls, batchDone, extResult, extLog, notExt>>

\* job = sfbulk.create_query_job(obj, contentType='CSV')
bulk_create_query_job ==
    /\ extPc = "create_query_job"
    /\ UNCHANGED extQuery
    /\ \/ BulkRaise("create_query_job", "ClientError")
       \/ /\ sfCalls' = Append(sfCalls, SfCall("create_query_job", "job"))
          /\ extPc' = "query"
          /\ UNCHANGED <<extArgs, ext, batchDone, extResult, extLog, notExt>>

\* batch = sfbulk.query(job, query)
bulk_query ==
    /\ extPc = "query"
    /\ UNCHANGED extQuery
    /\ \/ BulkRaise("query", "ClientError")
       \/ /\ sfCalls' = Append(sfCalls, SfCall("query", "batch"))
          /\ extPc' = "close_job"
          /\ UNCHANGED <<extArgs, ext, batchDone, extResult, extLog, notExt>>

\* sfbulk.close_job(job), and the first log line
bulk_close_job ==
    /\ extPc = "close_job"
    /\ UNCHANGED extQuery
    /\ \/ BulkRaise("close_job", "ClientError")
       \/ /\ sfCalls' = Append(sfCalls, SfCall("close_job", "None"))
          /\ extLog' = Append(extLog, "Waiting for batch to finish...")
          /\ extPc' = "is_batch_done"
          /\ UNCHANGED <<extArgs, ext, batchDone, extResult, notExt>>

\* Salesforce finishes the batch that was submitted
batch_finishes ==
    /\ extPc \in {"close_job", "is_batch_done", "sleep"}
    /\ ~batchDone
    /\ batchDone' = TRUE
    /\ UNCHANGED <<extArgs, ext, extPc, extQuery, sfCalls, extResult, extLog, notExt>>

FalsePolls == Cardinality({ i \in 1..Len(sfCalls) : sfCalls[i] = SfCall("is_batch_done", "False") })

\* faulty variant: the loop is left after one poll, whatever it returned
bulk_is_batch_done_once ==
    /\ extPc = "is_batch_done"
    /\ UNCHANGED extQuery
    /\ \/ BulkRaise("is_batch_done", "ClientError")
       \/ /\ ~batchDone => FalsePolls < MaxPolls
          /\ sfCalls' = Append(sfCalls,
                 SfCall("is_batch_done", IF batchDone THEN "True" ELSE "False"))
          /\ extLog' = Append(extLog, "Batch finished. Getting results...")
          /\ extPc' = "get_all_results_for_query_batch"
          /\ UNCHANGED <<extArgs, ext, batchDone, extResult, notExt>>

\* faulty variant: a poll limit; the second poll that finds the batch not done
\* gives up
bulk_is_batch_done_poll_limit ==
    /\ extPc = "is_batch_done"
    /\ UNCHANGED extQuery
    /\ \/ BulkRaise("is_batch_done", "ClientError")
       \/ /\ batchDone
          /\ sfCalls' = Append(sfCalls, SfCall("is_batch_done", "True"))
          /\ extLog' = Append(extLog, "Batch finished. Getting results...")
          /\ extPc' = "get_all_results_for_query_batch"
          /\ UNCHANGED <<extArgs, ext, batchDone, extResult, notExt>>
       \/ /\ ~batchDone
          /\ FalsePolls < MaxPolls
          /\ sfCalls' = Append(sfCalls, SfCall("is_batch_done", "False"))
          /\ IF FalsePolls >= 1
               THEN /\ extPc' = "raised"
                    /\ extResult' = [exc |-> "TimeoutError", value |-> PyNone, client |-> PyNone]
               ELSE /\ extPc' = "sleep"
                    /\ UNCHANGED extResult
          /\ UNCHANGED <<extArgs, ext, batchDone, extLog, notExt>>

\* while not sfbulk.is_batch_done(batch): one evaluation of the condition
bulk_is_batch_done ==
    /\ extPc = "is_batch_done"
    /\ UNCHANGED extQuery
    /\ \/ BulkRaise("is_batch_done", "ClientError")
       \/ /\ batchDone
          /\ sfCalls' = Append(sfCalls, SfCall("is_batch_done", "True"))
          /\ extLog' = Append(extLog, "Batch finished. Getting results...")
          /\ extPc' = "get_all_results_for_query_batch"
          /\ UNCHANGED <<extArgs, ext, batchDone, extResult, notExt>>
       \/ /\ ~batchDone
          /\ FalsePolls < MaxPolls
          /\ sfCalls' = Append(sfCalls, SfCall("is_batch_done", "False"))
          /\ extPc' = "sleep"
          /\ UNCHANGED <<extArgs, ext, batchDone, extResult, extLog, notExt>>

\* time.sleep(1) in the loop's body
bulk_sleep ==
    /\ extPc = "sleep"
    /\ sfCalls' = Append(sfCalls, SfCall("sleep", "None"))
    /\ extPc' = "is_batch_done"
    /\ UNCHANGED <<extArgs, ext, extQuery, batchDone, extResult, extLog, notExt>>

\* sfbulk.get_all_results_for_query_batch(batch), read into a dataframe
bulk_get_all_results ==
    /\ extPc = "get_all_results_for_query_batch"
    /\ UNCHANGED extQuery
    /\ \/ BulkRaise("get_all_results_for_query_batch", "ClientError")
       \/ \E rows \in QueryResults :
              /\ sfCalls' = Append(sfCalls,
                     SfCall("get_all_results_for_query_batch", "results"))
              /\ extResult' = [exc |-> None, value |-> rows, client |-> PyNone]
              /\ extPc' = "returned"
              /\ UNCHANGED <<extArgs, ext, batchDone, extLog, notExt>>

(***************************************************************************)
(* loaders.py: BigQueryLoader.  The functions it imports (delete_table,    *)
(* create_table, export_to_bigquery, update_bigquery,                      *)
(* schema_from_dataframe, client_bq) are made that return or raise.       *)
(***************************************************************************)
\* What the imported functions and the debugger do during one load: which of
\* the made raise, and whether a breakpoint() lets the method continue or ends
\* it (bdb.BdbQuit).
BqOutcomes ==
    [schema_from_dataframe : {"ok", "raised"}, delete_table : {"ok", "raised"},
     create_table : {"ok", "raised"}, export_to_bigquery : {"ok", "raised"},
     get_table : {"ok", "raised"}, update_bigquery : {"ok", "raised"},
     breakpoint : {"continue", "quit"}]

BqCall(op, ret) == [op |-> op, ret |-> ret]
\* the outcome of a method: the exception that leaves it (None when it returns),
\* the private methods entered, the imported functions called, and the log
BqDone(exc, methods, made, lg) == [exc |-> exc, methods |-> methods, calls |-> made, log |-> lg]

\* _write_from_scratch after the create step: the upload
scratch_upload(table, env, made, lg) ==
    LET calls2 == Append(made, BqCall("export_to_bigquery", env.export_to_bigquery))
        lg2    == Append(lg, "Uploading the dataframe to BQ as table " \o table \o ".")
    IN  IF env.export_to_bigquery = "raised" /\ env.breakpoint = "quit"
          THEN BqDone("BdbQuit", <<"_write_from_scratch">>, calls2, lg2)
          ELSE BqDone(None, <<"_write_from_scratch">>, calls2, Append(lg2, "Exported " \o table))

\* _write_from_scratch after the delete step: the create, then the upload
scratch_create(table, env, made, lg) ==
    LET calls2 == Append(made, BqCall("create_table", env.create_table))
        lg2    == Append(lg, "Creating table " \o table \o ".")
    IN  IF env.create_table = "raised" /\ env.breakpoint = "quit"
          THEN BqDone("BdbQuit", <<"_write_from_scratch">>, calls2, lg2)
          ELSE scratch_upload(table, env, calls2, lg2)

\* faulty variant: the exception of delete_table is not caught
write_from_scratch_delete_raises(frame, table, env) ==
    LET calls1 == <<BqCall("schema_from_dataframe", env.schema_from_dataframe)>>
        lg1    == <<"Getting the schema from the dataframe.">>
    IN  IF env.schema_from_dataframe = "raised"
          THEN BqDone("SchemaError", <<"_write_from_scratch">>, calls1, lg1)
        ELSE LET calls2 == Append(calls1, BqCall("delete_table", env.delete_table))
                 lg2    == Append(lg1, "Deleting table " \o table \o ".")
             IN  IF env.delete_table = "raised"
                   THEN BqDone("NotFound", <<"_write_from_scratch">>, calls2, lg2)
                   ELSE scratch_create(table, env, calls2, lg2)

\* BigQueryLoader._write_from_scratch
write_from_scratch(frame, table, env) ==
    LET calls1 == <<BqCall("schema_from_dataframe", env.schema_from_dataframe)>>
        lg1    == <<"Getting the schema from the dataframe.">>
    IN  IF env.schema_from_dataframe = "raised"
          THEN BqDone("SchemaError", <<"_write_from_scratch">>, calls1, lg1)
        ELSE LET calls2 == Append(calls1, BqCall("delete_table", env.delete_table))
                 lg2    == Append(lg1, "Deleting table " \o table \o ".")
             IN  scratch_create(table, env, calls2,
                     IF env.delete_table = "raised"
                       THEN Append(lg2, "Table " \o table \o " does not exist.")
                       ELSE lg2)

\* BigQueryLoader._update_table, with _fill_in_missing_cols
update_table(frame, table, env) ==
    LET calls1 == <<BqCall("get_table", env.get_table)>>
    IN  IF env.get_table = "raised"
          THEN BqDone("NotFound", <<"_update_table">>, calls1, <<>>)
        ELSE LET calls2 == Append(calls1, BqCall("update_bigquery", env.update_bigquery))
                 lg2    == <<"Updating table " \o table \o ".">>
             IN  BqDone(IF env.update_bigquery = "raised" THEN "UpdateError" ELSE None,
                        <<"_update_table">>, calls2, lg2)

\* faulty variant: the two branches on update_mode are exchanged
BigQueryLoader_load_inverted(self, frame, table, env) ==
    IF "update_mode" \notin DOMAIN self THEN BqDone("AttributeError", <<>>, <<>>, <<>>)
    ELSE IF ~self.update_mode THEN update_table(frame, table, env)
    ELSE write_from_scratch(frame, table, env)

\* BigQueryLoader.load
BigQueryLoader_load(self, frame, table, env) ==
    IF "update_mode" \notin DOMAIN self THEN BqDone("AttributeError", <<>>, <<>>, <<>>)
    ELSE IF self.update_mode THEN update_table(frame, table, env)
    ELSE write_from_scratch(frame, table, env)

NoBqLoad == [exc |-> "not called", methods |-> <<>>, calls |-> <<>>, log |-> <<>>]
BqIdle == bqLoad = NoBqLoad
notBq == <<LOCATION, checkerVars, pipeVars, configVars, mexVars, extVars, tiVars>>

\* A BigQueryLoader as constructed, or as an earlier call has left it.
BqLoaders ==
    {<<>>} \cup { [update_mode |-> u, table_name |-> "tbl", dataset_name |-> "dset"] :
                    u \in BOOLEAN }

\* loader(df, config) on a BigQueryLoader: BaseLoad.__call__, whose self.load is
\* BigQueryLoader.load
call_BigQueryLoader ==
    /\ last.exc = "not called"
    /\ \E d \in LoadInputs, c \in Configs \cup {PyNone}, env \in BqOutcomes :
         LET r == BaseLoad_call(loader, d, c)
             l == IF r.loads = <<>> THEN NoBqLoad
                  ELSE BigQueryLoader_load(r.loads[1].self, r.loads[1].df, r.loads[1].table, env)
         IN  /\ loader' = r.self
             /\ last' = [df |-> d, config |-> c, before |-> loader, loads |-> r.loads,
                         exc |-> IF r.loads = <<>> THEN r.exc ELSE l.exc,
                         msg |-> r.msg]
             /\ bqLoad' = l
    /\ UNCHANGED notBq

(***************************************************************************)
(* templates.py: TransformTemplate.throw_errors and test_inputs.           *)
(***************************************************************************)
\* An exception object collected in the errors list.
Error(class, msg) == [class |-> class, msg |-> msg]

\* throw_errors(errors): what it raises (None when it returns None) and logs
throw_errors(errors) ==
    IF Len(errors) = 0
      THEN [exc |-> None, log |-> <<>>]
      ELSE [exc |-> "SystemExit",
            log |-> [i \in 1..Len(errors) |-> errors[i].msg] \o <<"Exiting">>]

\* The values of data.dataframes: a dict, as the sequence of its items in
\* insertion order, or something that is no dict.
DictKeys == {"df_a", "df_b"}
Item(k, v) == [key |-> k, value |-> v]
Dict(items) == [type |-> "dict", items |-> items]
Dicts ==
    {Dict(<<>>)}
        \cup { Dict(<<Item(k, v)>>) : k \in DictKeys, v \in Values }
        \cup { Dict(<<Item(ks[1], v1), Item(ks[2], v2)>>) :
                 ks \in { p \in DictKeys \X DictKeys : p[1] # p[2] },
                 v1 \in Values, v2 \in Values }
TestInputsData == { [type |-> "Data", dataframes |-> x] : x \in Dicts \cup {PyNone, PyStr} }

\* hasattr(value, 'empty')
HasEmpty(v) == v.type \in {"DataFrame", "Duck"}

NotADataFrame(v) == Error("TypeError", "Expected a DataFrame, got " \o v.type)
EmptyFrame(k)    == Error("ValueError", "Dataframe " \o k \o " is empty.")

\* the for loop of test_inputs from item i on: the errors collected, and the
\* exception that ends the loop early
RECURSIVE test_inputs_loop(_, _, _)
test_inputs_loop(items, i, errors) ==
    IF i > Len(items) THEN [errors |-> errors, exc |-> None]
    ELSE LET value  == items[i].value
             typed  == IF IsDataFrame(value) THEN errors
                       ELSE Append(errors, NotADataFrame(value))
         IN  IF ~HasEmpty(value) THEN [errors |-> typed, exc |-> "AttributeError"]
             ELSE test_inputs_loop(items, i + 1,
                      IF empty(value) THEN Append(typed, EmptyFrame(items[i].key))
                      ELSE typed)

\* test_inputs(data): what it raises (None when it returns None), the errors it
\* collected and what it logged
test_inputs(inData) ==
    LET dataframes == inData.dataframes
    IN  IF dataframes.type # "dict"
          THEN LET errors == <<Error("TypeError", "Expected a dict, got " \o dataframes.type)>>
                   thrown == throw_errors(errors)
               IN  [exc |-> thrown.exc, errors |-> errors, log |-> thrown.log]
        ELSE LET looped == test_inputs_loop(dataframes.items, 1, <<>>)
                 thrown == throw_errors(looped.errors)
             IN  IF looped.exc # None
                   THEN [exc |-> looped.exc, errors |-> looped.errors, log |-> <<>>]
                   ELSE [exc |-> thrown.exc, errors |-> looped.errors, log |-> thrown.log]

NoTiCall == [op |-> "none", arg |-> PyNone, exc |-> "not called", errors |-> <<>>, log |-> <<>>]
TiIdle == tiCall = NoTiCall
MoreIdle == TiIdle /\ BqIdle
notTi == <<LOCATION, checkerVars, pipeVars, loadVars, configVars, mexVars, extVars, bqVars>>

\* transformer.test_inputs(data), for any Data object, on a fresh transformer
call_test_inputs ==
    /\ tiCall = NoTiCall
    /\ \E inData \in TestInputsData :
           LET r == test_inputs(inData)
           IN  tiCall' = [op |-> "test_inputs", arg |-> inData, exc |-> r.exc,
                          errors |-> r.errors, log |-> r.log]
    /\ UNCHANGED notTi

\* transformer.throw_errors(errors), for the error lists test_inputs can collect
call_throw_errors ==
    /\ tiCall = NoTiCall
    /\ \E inData \in TestInputsData :
           LET errors == test_inputs(inData).errors
               r      == throw_errors(errors)
           IN  tiCall' = [op |-> "throw_errors", arg |-> errors, exc |-> r.exc,
                          errors |-> errors, log |-> r.log]
    /\ UNCHANGED notTi

RestIdle == ConfigIdle /\ MexIdle /\ ExtIdle /\ MoreIdle

(***************************************************************************)
(* Specifications.                                                         *)
(***************************************************************************)
\* _baseclasses.py reads LOCATION at import and never uses it.
InitBaseLoad ==
    /\ LOCATION = None
    /\ CheckerIdle
    /\ PipeIdle
    /\ LoadIdle
    /\ RestIdle

NextBaseLoad == call_BaseLoad

SpecBaseLoad == InitBaseLoad /\ [][NextBaseLoad]_vars

InitChecker ==
    /\ LOCATION \in Locations
    /\ tests \in TestLists
    /\ handlerResult = NotCalled
    /\ checkerArgs = <<>>
    /\ checkerResult = NotCalled
    /\ PipeIdle
    /\ LoadIdle
    /\ RestIdle

NextChecker == call_generic_checker \/ call_generic_check_handler

SpecChecker == InitChecker /\ [][NextChecker]_vars

InitPipeline ==
    /\ LOCATION \in Locations
    /\ CheckerIdle
    /\ PipeInit
    /\ LoadIdle
    /\ RestIdle

NextPipeline ==
    \/ TemplatePipeline_run
    \/ TemplatePipeline_extract
    \/ TemplatePipeline_transform
    \/ TemplatePipeline_run_load
    \/ TemplatePipeline_call_load

SpecPipeline == InitPipeline /\ [][NextPipeline]_vars

InitConfig ==
    /\ LOCATION \in Locations
    /\ CheckerIdle
    /\ PipeIdle
    /\ LoadIdle
    /\ ConfigIdle
    /\ MexIdle
    /\ ExtIdle
    /\ MoreIdle

NextConfig == construct_Config

SpecConfig == InitConfig /\ [][NextConfig]_vars

\* extractors.py does not read LOCATION.
InitMulti ==
    /\ LOCATION = None
    /\ CheckerIdle
    /\ PipeIdle
    /\ LoadIdle
    /\ ConfigIdle
    /\ MexInit
    /\ ExtIdle
    /\ MoreIdle

NextMulti ==
    \/ call_create_job
    \/ call_run
    \/ call_run_async
    \/ extract_async_create_task
    \/ extract_async_await
    \/ extract_async_return
    \/ loop_run_task
    \/ asyncify_return
    \/ loop_wake_main

SpecMulti == InitMulti /\ [][NextMulti]_vars

InitExtractors ==
    /\ LOCATION = None
    /\ CheckerIdle
    /\ PipeIdle
    /\ LoadIdle
    /\ ConfigIdle
    /\ MexIdle
    /\ ExtInit
    /\ MoreIdle

NextExtractors ==
    \/ construct_SalesforceExtractor
    \/ construct_BigQueryExtractor
    \/ call_simple_query
    \/ call_query
    \/ call_bulk_query
    \/ bulk_create_query_job
    \/ bulk_query
    \/ bulk_close_job
    \/ batch_finishes
    \/ bulk_is_batch_done
    \/ bulk_sleep
    \/ bulk_get_all_results

SpecExtractors == InitExtractors /\ [][NextExtractors]_vars

\* The thread that runs _bulk_query goes on: a client call it has made returns
\* or raises, and a sleep ends. Nothing is assumed of Salesforce finishing the
\* batch, nor of the caller.
BulkFairness ==
    /\ WF_vars(bulk_create_query_job)
    /\ WF_vars(bulk_query)
    /\ WF_vars(bulk_close_job)
    /\ WF_vars(bulk_is_batch_done)
    /\ WF_vars(bulk_sleep)
    /\ WF_vars(bulk_get_all_results)

SpecExtractorsFair == SpecExtractors /\ BulkFairness

\* templates.py reads LOCATION in generic_check_handler only.
InitTestInputs ==
    /\ LOCATION = None
    /\ CheckerIdle
    /\ PipeIdle
    /\ LoadIdle
    /\ ConfigIdle
    /\ MexIdle
    /\ ExtIdle
    /\ TiIdle
    /\ BqIdle

NextTestInputs ==
    \/ call_test_inputs
    \/ call_throw_errors

SpecTestInputs == InitTestInputs /\ [][NextTestInputs]_vars

\* loaders.py does not read LOCATION.
InitBigQueryLoader ==
    /\ LOCATION = None
    /\ CheckerIdle
    /\ PipeIdle
    /\ loader \in BqLoaders
    /\ last = [df |-> PyNone, config |-> PyNone, before |-> <<>>, loads |-> <<>>,
               exc |-> "not called", msg |-> ""]
    /\ ConfigIdle
    /\ MexIdle
    /\ ExtIdle
    /\ TiIdle
    /\ BqIdle

NextBigQueryLoader == call_BigQueryLoader

SpecBigQueryLoader == InitBigQueryLoader /\ [][NextBigQueryLoader]_vars

(***************************************************************************)
(* Properties of TemplatePipeline (under SpecPipeline).                    *)
(***************************************************************************)
CallIndex == 1..Len(calls)

\* the runs of the three stages, in the order they were made
StageRuns ==
    SelectSeq(calls, LAMBDA e : e.op \in {"extractor.run", "transformer.run", "loader.run"})

\* C1: a run with a config, in which no stage and no check raises, runs the
\* extractor, then the transformer, then the loader, each exactly once; the
\* transformer is handed what the extractor returned, and the loader what the
\* transformer returned together with the pipeline's config.
C1_RunStagesInOrder ==
    (entry = "run" /\ pc = "done") =>
        /\ Len(StageRuns) = 3
        /\ StageRuns[1].op = "extractor.run"
        /\ StageRuns[2].op = "transformer.run"
        /\ StageRuns[2].args = <<StageRuns[1].ret>>
        /\ StageRuns[3].op = "loader.run"
        /\ StageRuns[3].args = <<StageRuns[2].ret, config>>

C1_Witness ==
    /\ entry = "run" /\ pc = "done"
    /\ data \in DataObjects /\ data.dataframes # {}
    /\ df.nrows = MaxRows

\* a transformer result that is no DataFrame, lacks 'Unique_ID', or repeats an id
BadTransformOutput(v) ==
    \/ ~IsDataFrame(v)
    \/ "Unique_ID" \notin v.columns
    \/ ~is_unique(v.Unique_ID)

\* C2: when the transformer returns a value that is not a DataFrame, has no
\* 'Unique_ID' column or has duplicate ids, run ends with an exception and the
\* loader is neither constructed nor run.
C2_BadTransformOutputStopsRun ==
    \A i \in CallIndex :
        (/\ entry = "run"
         /\ calls[i].op = "transformer.run"
         /\ calls[i].ret # Raised
         /\ BadTransformOutput(calls[i].ret))
        => /\ pc = "raised"
           /\ raised # None
           /\ \A j \in CallIndex : calls[j].op \notin {"Loader", "loader.run"}

C2_Witness ==
    /\ entry = "run" /\ pc = "raised" /\ raised = "Exception"
    /\ \E i \in CallIndex :
         /\ calls[i].op = "transformer.run"
         /\ IsDataFrame(calls[i].ret)
         /\ "Unique_ID" \in calls[i].ret.columns
         /\ ~is_unique(calls[i].ret.Unique_ID)

\* what the claim lists as checked before the loader runs
LoadChecksHold(d, c) ==
    /\ c.type = "Config"
    /\ c.table_name # ""
    /\ c.dataset_name # ""
    /\ HasColumns(d)
    /\ "Unique_ID" \in d.columns
    /\ is_unique(d.Unique_ID)

\* C3: the loader's run is invoked only after load_checker returned on the same
\* dataframe and config, and then the table name and the dataset name are
\* non-empty and the dataframe has a 'Unique_ID' column of unique values; when
\* one of these fails, load raises and the loader's run is not invoked.
C3_LoaderRunsOnlyAfterLoadChecker ==
    \A i \in CallIndex :
        /\ calls[i].op = "loader.run" =>
             /\ LoadChecksHold(calls[i].args[1], calls[i].args[2])
             /\ \E j \in 1..(i - 1) :
                  /\ calls[j].op = "load_checker"
                  /\ calls[j].args = calls[i].args
                  /\ calls[j].ret.exc = None
        /\ (calls[i].op = "load_checker"
              /\ ~LoadChecksHold(calls[i].args[1], calls[i].args[2])) =>
             /\ pc = "raised"
             /\ raised # None
             /\ \A j \in CallIndex : calls[j].op \notin {"Loader", "loader.run"}

C3_Witness ==
    /\ entry = "load" /\ pc = "done"
    /\ \E i \in CallIndex :
         /\ calls[i].op = "loader.run"
         /\ calls[i].args[1].nrows = MaxRows
         /\ calls[i].args[2] # config

\* the checks the pipeline's methods call
CheckOps == {"transform_checker", "load_checker"}

\* C4 as claimed: the loader's run is never invoked on an empty dataframe.
C4_EmptyFrameNotLoaded ==
    \A i \in CallIndex : calls[i].op = "loader.run" => ~empty(calls[i].args[1])

\* C8 as claimed: before the transformer runs, a check was applied to what the
\* extractor returned.
C8_ExtractOutputChecked ==
    \A i \in CallIndex :
        calls[i].op = "transformer.run" =>
            \E j \in 1..(i - 1) :
                /\ calls[j].op \in CheckOps
                /\ calls[j].args[1] = calls[i].args[1]

\* C24: run on a pipeline whose config is None logs the error and leaves
\* through sys.exit with no stage started: no extractor, transformer or loader
\* is instantiated or run, and no checker is called.
C24_NoConfigExitsBeforeAnyStage ==
    (entry = "run" /\ config = PyNone) =>
        /\ pc = "exited"
        /\ raised = "SystemExit"
        /\ calls = <<>>
        /\ log = <<"Config is None, cannot run the pipeline.", "Exiting">>
        /\ data = PyNone /\ df = PyNone

C24_Witness ==
    /\ entry = "run"
    /\ config = PyNone
    /\ pc = "exited"
    /\ raised = "SystemExit"

(***************************************************************************)
(* Properties of BaseLoad.__call__ (under SpecBaseLoad).                   *)
(***************************************************************************)
\* C5 as claimed: load is never reached with a dataframe whose 'Unique_ID'
\* column is missing or holds duplicates.
C5_LoadOnlyUniqueIds ==
    \A k \in 1..Len(last.loads) :
        /\ "Unique_ID" \in last.loads[k].df.columns
        /\ is_unique(last.loads[k].df.Unique_ID)

\* C5, amended: load is never reached with a dataframe that has no 'Unique_ID'
\* column (its presence is checked; the uniqueness of its values is not).
C5_LoadOnlyWithUniqueIdColumn ==
    \A k \in 1..Len(last.loads) :
        /\ IsDataFrame(last.loads[k].df)
        /\ "Unique_ID" \in last.loads[k].df.columns

C5_Witness ==
    \E k \in 1..Len(last.loads) :
        /\ "Unique_ID" \in last.loads[k].df.columns
        /\ ~is_unique(last.loads[k].df.Unique_ID)

\* the first failing check of the claimed order, as <<exception, message>>
FirstRejection(d, c) ==
    IF c.table_name = "" THEN <<"ValueError", "Table name cannot be empty.">>
    ELSE IF c.dataset_name = "" THEN <<"ValueError", "Dataset name cannot be empty.">>
    ELSE IF ~IsDataFrame(d) THEN <<"TypeError", "Expected a dataframe, got " \o d.type>>
    ELSE IF "Unique_ID" \notin d.columns THEN <<"KeyError", NoUniqueIdMsg>>
    ELSE <<None, "">>

\* C6: invalid input is rejected by the first failing check, in the order table
\* name, dataset name, dataframe type, 'Unique_ID' column; load is not called and
\* the loader's attributes are as before the call.
C6_RejectsInFixedOrder ==
    (/\ last.exc # "not called"
     /\ last.config.type = "Config"
     /\ FirstRejection(last.df, last.config)[1] # None)
    => /\ <<last.exc, last.msg>> = FirstRejection(last.df, last.config)
       /\ last.loads = <<>>
       /\ loader = last.before

C6_Witness ==
    /\ last.exc = "ValueError"
    /\ last.msg = "Dataset name cannot be empty."
    /\ ~IsDataFrame(last.df)
    /\ last.before # <<>>
    /\ loader = last.before

\* C7: on an empty dataframe that has a 'Unique_ID' column, with non-empty table
\* and dataset names, the call returns None, load is not called and the loader's
\* attributes are as before the call.
C7_EmptyFrameShortCircuit ==
    (/\ last.exc # "not called"
     /\ last.config.type = "Config"
     /\ last.config.table_name # ""
     /\ last.config.dataset_name # ""
     /\ IsDataFrame(last.df)
     /\ "Unique_ID" \in last.df.columns
     /\ last.df.nrows = 0)
    => /\ last.exc = None
       /\ last.loads = <<>>
       /\ loader = last.before

C7_Witness ==
    /\ last.exc = None
    /\ IsDataFrame(last.df)
    /\ "Unique_ID" \in last.df.columns
    /\ last.df.nrows = 0
    /\ last.before # <<>>
    /\ last.before.update_mode # last.config.update_mode
    /\ loader = last.before

LoadCallSucceeds ==
    /\ last.exc # "not called"
    /\ last.config.type = "Config"
    /\ last.config.table_name # ""
    /\ last.config.dataset_name # ""
    /\ IsDataFrame(last.df)
    /\ "Unique_ID" \in last.df.columns
    /\ ~empty(last.df)

\* C25: on a call with non-empty table and dataset names and a non-empty
\* dataframe that has a 'Unique_ID' column, load is called exactly once, with
\* that dataframe and the table '<PROJECT_ID>.<dataset_name>.<table_name>', and
\* at that call the loader's update_mode, table_name and dataset_name are the
\* config's.
C25_LoadCalledOnceWithFullTableName ==
    LoadCallSucceeds =>
        /\ Len(last.loads) = 1
        /\ last.loads[1].df = last.df
        /\ last.loads[1].table =
               PROJECT_ID \o "." \o last.config.dataset_name \o "." \o last.config.table_name
        /\ last.loads[1].self.update_mode = last.config.update_mode
        /\ last.loads[1].self.table_name = last.config.table_name
        /\ last.loads[1].self.dataset_name = last.config.dataset_name

C25_Witness ==
    /\ LoadCallSucceeds
    /\ last.exc = None
    /\ last.before # <<>>
    /\ last.before.update_mode # last.config.update_mode
    /\ last.df.nrows = 2
    /\ last.loads[1].table = "proj.dset.tbl"

(***************************************************************************)
(* Properties of the check helpers (under SpecChecker).                    *)
(***************************************************************************)
\* C9: generic_check_handler raises Exception exactly when some test of the list
\* has a false condition, and returns None when all are true; the exception and
\* its args depend on the list alone, not on LOCATION.
C9_HandlerRaisesIffSomeTestFails ==
    handlerResult # NotCalled =>
        /\ handlerResult.exc = "Exception" <=> \E i \in 1..Len(tests) : ~tests[i][1]
        /\ handlerResult.exc = None <=> \A i \in 1..Len(tests) : tests[i][1]
        /\ handlerResult.exc = "Exception" =>
             handlerResult.args =
                 [i \in 1..Len(tests) |-> IF tests[i][1] THEN None ELSE tests[i][3]]

C9_Witness ==
    /\ LOCATION = "cloud"
    /\ Len(tests) = 2
    /\ tests[1][1] /\ ~tests[2][1]
    /\ handlerResult.exc = "Exception"
    /\ handlerResult.args = <<None, "KeyError">>

C11_UpdateModeSetsMinDate ==
    (cfg # PyNone /\ cfg.update_mode) =>
        cfg.min_date = strftime(cfgArgs.now - cfg.lookbacktime)

\* C12: in the cloud every Config has update_mode True, whatever the argument;
\* anywhere else update_mode is the argument.
C12_CloudForcesUpdateMode ==
    cfg # PyNone =>
        cfg.update_mode = (IF LOCATION = "cloud" THEN TRUE ELSE cfgArgs.update_mode)

C12_Witness ==
    /\ LOCATION = "cloud"
    /\ cfg # PyNone
    /\ ~cfgArgs.update_mode
    /\ cfg.update_mode

(***************************************************************************)
(* Properties of MultiExtractor (under SpecMulti).                         *)
(***************************************************************************)
JobIndex == 1..Len(extractor_jobs)
JobKey(i) == "df_" \o extractor_jobs[i].name.value
ValidCreate ==
    /\ lastCreate.exc # "not called"
    /\ IsBaseExtract(lastCreate.extractor)
    /\ IsStr(lastCreate.name)
    /\ IsStr(lastCreate.query)

\* C13: create_job with a BaseExtract, a string name and a string query returns
\* and leaves extractor_jobs as the list before the call with one job appended,
\* which holds those three values.
C13_CreateJobAppends ==
    ValidCreate =>
        /\ lastCreate.exc = None
        /\ extractor_jobs =
               Append(lastCreate.before,
                      [query |-> lastCreate.query, name |-> lastCreate.name,
                       extractor |-> lastCreate.extractor])

C13_Witness ==
    /\ ValidCreate
    /\ Len(extractor_jobs) >= 2
    /\ extractor_jobs[1].name # extractor_jobs[2].name
    /\ lastCreate.name = extractor_jobs[Len(extractor_jobs)].name

\* C14: create_job with an extractor that is no BaseExtract, or a name or a query
\* that is no string, raises TypeError and leaves extractor_jobs as it was.
C14_CreateJobRejects ==
    (lastCreate.exc # "not called" /\ ~ValidCreate) =>
        /\ lastCreate.exc = "TypeError"
        /\ extractor_jobs = lastCreate.before

C14_Witness ==
    /\ lastCreate.exc = "TypeError"
    /\ lastCreate.extractor = PyStr
    /\ IsStr(lastCreate.name) /\ IsStr(lastCreate.query)
    /\ lastCreate.before # <<>>
    /\ extractor_jobs = lastCreate.before

SyncReturned == ~async_extract /\ mexPc = "returned"

\* every query_runner called exactly once, in job-creation order
RunnersCalledInOrder ==
    runnerCalls = [i \in JobIndex |-> [job |-> i, query |-> extractor_jobs[i].query]]

\* the latest job that has the name of job i
LastWithName(i) ==
    CHOOSE j \in JobIndex :
        /\ extractor_jobs[j].name = extractor_jobs[i].name
        /\ \A k \in JobIndex : extractor_jobs[k].name = extractor_jobs[i].name => k <= j

\* C15 as claimed: the dict returned by the synchronous run maps every job's key
\* to what that job's query_runner returned.
C15_EveryJobOwnResult ==
    SyncReturned =>
        /\ DOMAIN mexResult.data.dataframes = { JobKey(i) : i \in JobIndex }
        /\ \A i \in JobIndex : mexResult.data.dataframes[JobKey(i)] = answers[i]
        /\ RunnersCalledInOrder

\* C15, amended: the dict's keys are the jobs' keys, and a key is mapped to what
\* the query_runner of the latest job of that name returned; every query_runner
\* was called exactly once, in job-creation order.
C15_LatestJobOfNameWins ==
    SyncReturned =>
        /\ DOMAIN mexResult.data.dataframes = { JobKey(i) : i \in JobIndex }
        /\ \A i \in JobIndex :
               mexResult.data.dataframes[JobKey(i)] = answers[LastWithName(i)]
        /\ RunnersCalledInOrder

C15_Witness ==
    /\ SyncReturned
    /\ Len(extractor_jobs) >= 2
    /\ extractor_jobs[1].name = extractor_jobs[2].name
    /\ answers[1] # answers[2]

\* C16: no task is run or awaited before a task exists for every job; there is
\* one task per job; when run returns every task is done and was awaited, and
\* its key is in the dict; no task runs twice and none is cancelled.
C16_FanOutThenFanIn ==
    /\ Len(tasks) <= Len(extractor_jobs)
    /\ \A i \in 1..Len(tasks) :
           /\ tasks[i].job = i
           /\ tasks[i].runs <= 1
           /\ tasks[i].state # "cancelled"
    /\ (mexPc = "loop" \/ awaited > 0 \/ runnerCalls # <<>>) =>
           (async_extract => Len(tasks) = Len(extractor_jobs))
    /\ (async_extract /\ mexPc = "returned") =>
           /\ Len(tasks) = Len(extractor_jobs)
           /\ awaited = Len(tasks)
           /\ \A i \in JobIndex :
                  /\ tasks[i].state = "done"
                  /\ tasks[i].runs = 1
                  /\ JobKey(i) \in DOMAIN mexResult.data.dataframes

C16_Witness ==
    /\ async_extract /\ mexPc = "returned"
    /\ Len(tasks) >= 2
    /\ awaited = Len(tasks)

\* C20: when no query_runner raises, the Data the async path returns has the
\* dataframes dict the synchronous _run makes of the same jobs.
C20_AsyncEqualsSync ==
    (async_extract /\ mexPc = "returned") =>
        /\ MultiExtractor_run(extractor_jobs, answers).exc = None
        /\ mexResult.data.dataframes =
               MultiExtractor_run(extractor_jobs, answers).data.dataframes

C20_Witness ==
    /\ async_extract /\ mexPc = "returned"
    /\ Len(extractor_jobs) >= 2
    /\ extractor_jobs[1].name # extractor_jobs[2].name
    /\ answers[1] # answers[2]
    /\ DOMAIN mexResult.data.dataframes = {"df_a", "df_b"}

Running == { i \in 1..Len(tasks) : tasks[i].state = "running" }

JobNames == { extractor_jobs[i].name : i \in JobIndex }

\* C22: when run returns, synchronous or not, every job's query_runner has been
\* called, the dict has one entry per distinct job name, and the entry of a
\* name is the result of the job created last under that name.
C22_OneEntryPerName ==
    mexPc = "returned" =>
        /\ Len(runnerCalls) = Len(extractor_jobs)
        /\ \A i \in JobIndex : \E k \in 1..Len(runnerCalls) : runnerCalls[k].job = i
        /\ Cardinality(DOMAIN mexResult.data.dataframes) = Cardinality(JobNames)
        /\ \A i \in JobIndex :
               /\ JobKey(i) \in DOMAIN mexResult.data.dataframes
               /\ mexResult.data.dataframes[JobKey(i)] = answers[LastWithName(i)]

C22_Witness ==
    /\ async_extract
    /\ mexPc = "returned"
    /\ Len(extractor_jobs) >= 2
    /\ extractor_jobs[1].name = extractor_jobs[2].name
    /\ answers[1] # answers[2]
    /\ Cardinality(DOMAIN mexResult.data.dataframes) = 1

(***************************************************************************)
(* Properties of the single extractors (under SpecExtractors).             *)
(***************************************************************************)
GetAll == "get_all_results_for_query_batch"

\* C17: the calls of _bulk_query are create_query_job, query, close_job, then
\* is_batch_done alternating with sleep, then get_all_results_for_query_batch:
\* a sleep follows only a poll that returned False, the results are fetched
\* only right after a poll that returned True, nothing follows the fetch or a
\* call that raised, and no call but the poll (with its sleep) happens twice.
C17_BulkQueryLinearWait ==
    \A i \in 1..Len(sfCalls) :
        LET c == sfCalls[i]
        IN  /\ i = 1 => c.op = "create_query_job"
            /\ i = 2 => c.op = "query"
            /\ i = 3 => c.op = "close_job"
            /\ i = 4 => c.op = "is_batch_done"
            /\ i > 4 => c.op \in {"is_batch_done", "sleep", GetAll}
            /\ c.op = "sleep" => sfCalls[i - 1] = SfCall("is_batch_done", "False")
            /\ (c.op = "is_batch_done" /\ i > 4) => sfCalls[i - 1] = SfCall("sleep", "None")
            /\ c.op = GetAll => sfCalls[i - 1] = SfCall("is_batch_done", "True")
            /\ (c.op = GetAll \/ c.ret = "raised") => i = Len(sfCalls)
            /\ (c = SfCall("is_batch_done", "True") /\ i < Len(sfCalls)) =>
                   sfCalls[i + 1].op = GetAll

C17_Witness ==
    /\ extPc = "returned"
    /\ Len(sfCalls) >= 7
    /\ sfCalls[5] = SfCall("sleep", "None")
    /\ sfCalls[Len(sfCalls)] = SfCall(GetAll, "results")

\* C18: when the BigQuery client raises e on the query, _query has logged the
\* error and raises e itself; it returns nothing.
C18_QueryReraisesClientError ==
    (extArgs.class = "BigQueryExtractor" /\ IsException(extResult.client)) =>
        /\ extPc = "raised"
        /\ extResult.exc = extResult.client.class
        /\ extResult.value = PyNone
        /\ \E i \in 1..Len(extLog) : extLog[i] = "Error querying BQ:"

C18_Witness ==
    /\ extArgs.class = "BigQueryExtractor"
    /\ extResult.client = ClientRaises("BadRequest")
    /\ extResult.exc = "BadRequest"
    /\ extPc = "raised"

\* C19: a SalesforceExtractor made from a credentials file has a client, and its
\* query_runner is _bulk_query when bulk is True and _simple_query when it is
\* False, and never the other way round.
C19_RunnerFollowsBulk ==
    (extArgs.class = "SalesforceExtractor" /\ extArgs.creds_json # "" /\ ext # PyNone) =>
        /\ ext.client # PyNone
        /\ ext.query_runner \in {"_bulk_query", "_simple_query"}
        /\ ext.query_runner = "_bulk_query" <=> extArgs.bulk
        /\ ext.query_runner = "_simple_query" <=> ~extArgs.bulk

C19_Witness ==
    /\ extArgs = [class |-> "SalesforceExtractor", bulk |-> TRUE, creds_json |-> "creds.json"]
    /\ extPc = "constructed"
    /\ ext.client = SalesforceBulk
    /\ ext.query_runner = "_bulk_query"

TruePolled == \E i \in 1..Len(sfCalls) : sfCalls[i] = SfCall("is_batch_done", "True")
BulkReturned == extPc = "returned" /\ sfCalls # <<>>
FetchRaised ==
    /\ extPc = "raised"
    /\ sfCalls # <<>>
    /\ sfCalls[Len(sfCalls)] = SfCall(GetAll, "raised")

\* _bulk_query returns only a dataframe and only after a poll returned True, and
\* it never ends on a poll that returned False or on a sleep: no timeout, no
\* poll limit.
LoopLeftOnlyWhenDone ==
    /\ BulkReturned => (TruePolled /\ IsDataFrame(extResult.value))
    /\ (extPc \in {"returned", "raised"} /\ sfCalls # <<>>) =>
           /\ sfCalls[Len(sfCalls)] # SfCall("is_batch_done", "False")
           /\ sfCalls[Len(sfCalls)] # SfCall("sleep", "None")

\* C23 as claimed: once is_batch_done has returned True, _bulk_query eventually
\* returns a dataframe; and it returns only after a poll that returned True,
\* never giving up on a batch that is not done.
C23_DoneLeadsToDataFrame ==
    /\ TruePolled ~> BulkReturned
    /\ []LoopLeftOnlyWhenDone

\* C23, amended: once is_batch_done has returned True, _bulk_query eventually
\* has called get_all_results_for_query_batch and has returned a dataframe or
\* is left by the exception that call raised; and it returns only after a poll
\* that returned True, never giving up on a batch that is not done.
C23_DoneLeadsToFetch ==
    /\ TruePolled ~> (BulkReturned \/ FetchRaised)
    /\ []LoopLeftOnlyWhenDone

C23_Witness ==
    /\ BulkReturned
    /\ TruePolled
    /\ FalsePolls = 1
    /\ extResult.value.nrows = 1

(***************************************************************************)
(* Properties of TransformTemplate.test_inputs (under SpecTestInputs).     *)
(***************************************************************************)
\* data.dataframes is a dict and every value in it is a non-empty DataFrame
ValidInputs(inData) ==
    /\ inData.dataframes.type = "dict"
    /\ \A i \in 1..Len(inData.dataframes.items) :
           /\ IsDataFrame(inData.dataframes.items[i].value)
           /\ ~empty(inData.dataframes.items[i].value)

\* C26: test_inputs returns None exactly on valid inputs; on any other input
\* it leaves through sys.exit, having collected at least one error and logged
\* every collected error and then 'Exiting'; throw_errors of an empty list
\* returns None and logs nothing.
C26_TestInputsReturnsOrExits ==
    /\ tiCall.op = "test_inputs" =>
           /\ tiCall.exc = None <=> ValidInputs(tiCall.arg)
           /\ ~ValidInputs(tiCall.arg) =>
                  /\ tiCall.exc = "SystemExit"
                  /\ tiCall.errors # <<>>
                  /\ tiCall.log = [i \in 1..Len(tiCall.errors) |-> tiCall.errors[i].msg]
                                      \o <<"Exiting">>
    /\ (tiCall.op = "throw_errors" /\ tiCall.arg = <<>>) =>
           (tiCall.exc = None /\ tiCall.log = <<>>)

(***************************************************************************)
(* Properties of BigQueryLoader (under SpecBigQueryLoader).                *)
(***************************************************************************)
BqOps == { bqLoad.calls[i].op : i \in 1..Len(bqLoad.calls) }
LoadReached == bqLoad.exc # "not called"

\* C27: when load is reached through __call__, the loader's update_mode is the
\* config's; if it is true only _update_table runs and no table is deleted or
\* created, and if it is false only _write_from_scratch runs and
\* update_bigquery is not called.
C27_LoadDispatchesOnUpdateMode ==
    LoadReached =>
        /\ loader.update_mode = last.config.update_mode
        /\ last.config.update_mode =>
               /\ bqLoad.methods = <<"_update_table">>
               /\ BqOps \subseteq {"get_table", "update_bigquery"}
        /\ ~last.config.update_mode =>
               /\ bqLoad.methods = <<"_write_from_scratch">>
               /\ BqOps \cap {"get_table", "update_bigquery"} = {}

C27_Witness ==
    /\ LoadReached
    /\ last.before # <<>>
    /\ ~last.before.update_mode
    /\ last.config.update_mode
    /\ bqLoad.calls = <<BqCall("get_table", "ok"), BqCall("update_bigquery", "ok")>>
    /\ bqLoad.exc = None

IsScratchStep(c) == c.op \in {"delete_table", "create_table", "export_to_bigquery"}
ScratchSteps == SelectSeq(bqLoad.calls, IsScratchStep)
ScratchOrder == <<"delete_table", "create_table", "export_to_bigquery">>

\* C28: the steps of _write_from_scratch are delete, create, upload in this
\* order, each at most once; the delete, failed or not, is followed by the
\* create, and a create that returned is followed by the upload; so the upload
\* never comes before the create was attempted, and a failed delete does not
\* leave the method.
C28_ScratchStepsInOrder ==
    bqLoad.methods = <<"_write_from_scratch">> =>
        /\ Len(ScratchSteps) <= 3
        /\ \A i \in 1..Len(ScratchSteps) : ScratchSteps[i].op = ScratchOrder[i]
        /\ Len(ScratchSteps) >= 1 => Len(ScratchSteps) >= 2
        /\ (Len(ScratchSteps) >= 2 /\ ScratchSteps[2].ret = "ok") => Len(ScratchSteps) = 3
        /\ (Len(ScratchSteps) >= 1 /\ ScratchSteps[1].ret = "raised") =>
               bqLoad.exc \in {None, "BdbQuit"}

C28_Witness ==
    /\ bqLoad.methods = <<"_write_from_scratch">>
    /\ ScratchSteps = <<BqCall("delete_table", "raised"), BqCall("create_table", "ok"),
                        BqCall("export_to_bigquery", "ok")>>
    /\ bqLoad.exc = None

====
